---- MODULE Spec2Model ----
(***************************************************************************)
(* State-machine model of opentrack's logic/pipeline.cpp: the command      *)
(* flags (bits), the relative-translation compensator (reltrans), the      *)
(* pose transforms and the worker loop of class pipeline.                  *)
(*                                                                         *)
(* Numbers are fixed point.  Rotation slots are in hundredths of a degree  *)
(* (so the 1e-2 tolerance of clamp_value is 1), translation slots in       *)
(* 1e-4 units (so eps = .01 of apply_pipeline is 100), times in            *)
(* milliseconds.  A Pose is a function over the slots 0..5 in the order    *)
(* of the source: TX, TY, TZ, Yaw, Pitch, Roll.                            *)
(***************************************************************************)
EXTENDS Integers, Sequences, FiniteSets, TLC

VARIABLES
    \* ---- clamp_value applied to one input (pure-function harness)
    cpc,            \* "in" before the call, "done" after
    cin,            \* the Pose handed to clamp_value
    cturns,         \* integer k: the second call gets cin rotated by 360*k
    cout,           \* clamp_value(cin)
    cshift          \* clamp_value(cin + 360*k on the rotation slots)

clampVars == <<cpc, cin, cturns, cout, cshift>>

VARIABLES
    \* ---- bits: concurrent callers of bits::set / bits::negate
    b,              \* the std::atomic<unsigned> bitset, as the set of flags that are 1
    bstart,         \* value of b when the callers started (history)
    top,            \* top[t]: the call thread t makes
    tpc,            \* tpc[t]: "idle", "cas" (inside the for(;;) loop), "done"
    tb_             \* tb_[t]: the local `unsigned b_` of thread t's call

bitsVars == <<b, bstart, top, tpc, tb_>>

VARIABLES
    \* ---- reltrans: the compensator driven cycle by cycle
    rel,            \* the reltrans object: interp_pos, in_zone, cur, RC_stage, two timers
    rs,             \* settings read each cycle: reltrans_mode, neck_enable, neck_z, disable
    rlast,          \* the last call of apply_reltrans: its inputs and what it did (history)
    rcycles,        \* calls of apply_reltrans made so far
    rfix            \* in the fixed-input runs: the pose and dt every cycle gets

relVars == <<rel, rs, rlast, rcycles, rfix>>

VARIABLES
    \* ---- pipeline: the worker thread, its readers and its destructor
    wpc,            \* where the worker is in run() / logic()
    interruption,   \* QThread's interruption-request flag
    dpc,            \* ~pipeline: "alive", "requested" (waiting in wait()), "returned"
    mtx,            \* holder of pipeline::mtx: "free", "worker" or "reader"
    output_pose,    \* Shared Output State: the corrected pose
    raw_6dof,       \* Shared Output State: the raw pose
    newpose,        \* pipeline::newpose
    tracking_started,
    scaled_state,   \* rotation, inv_rot_center (as the rotation it inverts), t_center
    cfg,            \* m(i).opts, s.center_at_startup, libs.pFilter, the curves
    lc,             \* the locals of logic(): center_ordered, hold_ordered, value, raw, ...
    published,      \* poses handed to libs.pProtocol->pose in the current cycle (history)
    frames,         \* the last cycles: how each ended and what it stored (history)
    stored,         \* every (output_pose, raw_6dof) pair a cycle has stored (history)
    ncycles,        \* calls of logic() so far
    rd,             \* rd[r]: reader r's place in raw_and_mapped_pose and its out-arrays
    sched           \* run()'s backlog_time, the last elapsed_nsecs and sleep_time_ms

runVars == <<wpc, interruption, dpc, mtx, output_pose, raw_6dof, newpose, tracking_started,
             scaled_state, cfg, lc, published, frames, stored, ncycles, rd, sched>>

vars == <<clampVars, bitsVars, relVars, runVars>>

----------------------------------------------------------------------------
(* Slots of a Pose, as in the source's enum.                               *)
TX == 0
TY == 1
TZ == 2
Yaw == 3
Pitch == 4
Roll == 5

Slots == 0 .. 5
RotSlots == 3 .. 5
TransSlots == 0 .. 2

\* bounds of the model
MaxTurns == 1
NThreads == 2
MaxRelCycles == 2
MaxCycles == 3
CmdCycles == 2
SchedCycles == 3
SnapCycles == 2
TeardownCycles == 2
NReaders == 1
TimerCap == 3000

Abs(x) == IF x < 0 THEN -x ELSE x

ZeroPose == (0 :> 0) @@ (1 :> 0) @@ (2 :> 0) @@ (3 :> 0) @@ (4 :> 0) @@ (5 :> 0)

MkPose(tx, ty, tz, yaw, pitch, roll) ==
    (0 :> tx) @@ (1 :> ty) @@ (2 :> tz) @@ (3 :> yaw) @@ (4 :> pitch) @@ (5 :> roll)

\* F(e), with e evaluated once
Bind(e, F(_)) == CHOOSE y \in {F(x) : x \in {e}} : TRUE

----------------------------------------------------------------------------
(* clamp_value, pipeline.cpp 314-328.                                      *)

\* 360 and 180 degrees and the 1e-2 tolerance, in hundredths of a degree
FullTurn == 36000
HalfTurn == 18000
FoldTol == 1

\* std::fmod: the result has the sign of the dividend
Fmod(x, y) == IF x >= 0 THEN x % y ELSE -((-x) % y)

\* std::copysign(mag, x)
CopySign(mag, x) == IF x < 0 THEN -mag ELSE mag

\* compat/math.hpp clamp(val, min, max)
clamp(x, lo, hi) == IF x < lo THEN lo ELSE IF x > hi THEN hi ELSE x

\* one iteration of the loop of clamp_value, on slot value v:
\*   value(i) = fmod(value(i), 360);
\*   const double x = value(i);
\*   if (fabs(x) - 1e-2 > 180) value(i) = fmod(x + copysign(180, x), 360) - copysign(180, x);
\*   value(i) = clamp(x, -180, 180);          <- reads x, not value(i)
clamp_slot(v) ==
    LET v1 == Fmod(v, FullTurn)
        x  == v1
        v2 == IF Abs(x) - FoldTol > HalfTurn
              THEN Fmod(x + CopySign(HalfTurn, x), FullTurn) - CopySign(HalfTurn, x)
              ELSE v1
        v3 == clamp(x, -HalfTurn, HalfTurn)
    IN  v3

\* mutant of clamp_value: the final hard clamp is missing
clamp_value_noclamp(value) ==
    MkPose(value[0], value[1], value[2],
           Fmod(value[3], FullTurn), Fmod(value[4], FullTurn), Fmod(value[5], FullTurn))

clamp_value(value) ==
    MkPose(value[0], value[1], value[2],
           clamp_slot(value[3]), clamp_slot(value[4]), clamp_slot(value[5]))

----------------------------------------------------------------------------
(* bits, pipeline.cpp 631-664.  The bitset is modelled as the set of the  *)
(* flags whose bit is 1; a mask is a set of flags, & is intersection, | is *)
(* union, ^ is symmetric difference.                                       *)

f_center == {"center"}
f_held_center == {"held_center"}
f_enabled_p == {"enabled_p"}
f_enabled_h == {"enabled_h"}
f_zero == {"zero"}

Flags == f_center \cup f_held_center \cup f_enabled_p \cup f_enabled_h \cup f_zero

\* (b_ & ~flag_) | (flag_ * val_), line 638
bits_set_desired(b_, flag, val) == (b_ \ flag) \cup (IF val THEN flag ELSE {})

\* b_ ^ flag_, line 648
bits_negate_desired(b_, flag) == (b_ \ flag) \cup (flag \ b_)

\* bits::get, line 654
bits_get(bv, mask) == (bv \cap mask) # {}

\* a call: [kind |-> "set", flag, val] or [kind |-> "negate", flag]
SetOp(flag, val) == [kind |-> "set", flag |-> flag, val |-> val]
NegateOp(flag) == [kind |-> "negate", flag |-> flag, val |-> FALSE]

\* the value the call hands to compare_exchange_weak as `desired`
Desired(op, b_) ==
    IF op.kind = "set" THEN bits_set_desired(b_, op.flag, op.val)
                       ELSE bits_negate_desired(b_, op.flag)

\* mutant of compare_exchange_ok: a plain store, which never compares
compare_exchange_blind(cur, expected) == TRUE

\* compare_exchange_weak succeeds only when the atomic holds `expected`
compare_exchange_ok(cur, expected) == cur = expected

\* bits::bits(), lines 657-664: five sets on b(0u), single threaded
bits_ctor ==
    LET b1 == bits_set_desired({}, f_center, FALSE)
        b2 == bits_set_desired(b1, f_held_center, FALSE)
        b3 == bits_set_desired(b2, f_enabled_p, TRUE)
        b4 == bits_set_desired(b3, f_enabled_h, TRUE)
    IN  bits_set_desired(b4, f_zero, FALSE)

\* the calls the pipeline's command interface makes, lines 618-629, and
\* the worker's own b.set(f_center, ...) of lines 278 and 503
CommandOps ==
    {SetOp(f_center, TRUE), SetOp(f_center, FALSE), NegateOp(f_zero), NegateOp(f_enabled_p)}
    \cup {SetOp(f, v) : f \in {f_held_center, f_enabled_h, f_zero}, v \in BOOLEAN}

Threads == 1 .. NThreads

----------------------------------------------------------------------------
(* Fixed-point helpers.                                                    *)

\* a / d rounded to the nearest integer, halves away from zero (d > 0)
RoundDiv(a, d) ==
    IF a >= 0 THEN (a + d \div 2) \div d ELSE -(((-a) + d \div 2) \div d)

\* 1000 * sin of 0, 5, ..., 90 degrees
SinTable == <<0, 87, 174, 259, 342, 423, 500, 574, 643, 707,
              766, 819, 866, 906, 940, 966, 985, 996, 1000>>

\* 1000 * sin(a), a in hundredths of a degree, to the nearest 5 degrees
Sin(a) ==
    LET n == RoundDiv(a, 500) % 72
    IN  CASE n <= 18 -> SinTable[n + 1]
          [] n <= 36 -> SinTable[36 - n + 1]
          [] n <= 54 -> -SinTable[n - 36 + 1]
          [] OTHER   -> -SinTable[72 - n + 1]

Cos(a) == Sin(a + 9000)

Vec3(x, y, z) == (0 :> x) @@ (1 :> y) @@ (2 :> z)
ZeroVec == Vec3(0, 0, 0)
NoDisable3 == Vec3(FALSE, FALSE, FALSE)
NoDisable6 ==
    (0 :> FALSE) @@ (1 :> FALSE) @@ (2 :> FALSE) @@ (3 :> FALSE) @@ (4 :> FALSE) @@ (5 :> FALSE)

L1(v) == Abs(v[0]) + Abs(v[1]) + Abs(v[2])

\* euler_to_rmat (compat/euler): rotation matrix, entries times 1000, of the
\* Tait-Bryan angles e = (yaw, pitch, roll); rows are <<m0,m1,m2>>, ...
euler_to_rmat(e) ==
    LET X == e[2]   Y == -e[1]   Z == -e[0]
        cx == Cos(X)  sx == Sin(X)
        cy == Cos(Y)  sy == Sin(Y)
        cz == Cos(Z)  sz == Sin(Z)
        P2(u, v) == RoundDiv(u * v, 1000)
        P3(u, v, w) == RoundDiv(u * v * w, 1000000)
    IN  << <<P2(cy, cz),                  -P2(cy, sz),                 sy>>,
           <<P3(cz, sx, sy) + P2(cx, sz),  P2(cx, cz) - P3(sx, sy, sz), -P2(cy, sx)>>,
           <<P2(sx, sz) - P3(cx, cz, sy),  P2(cz, sx) + P3(cx, sy, sz), P2(cx, cy)>> >>

\* R * v for a matrix with entries times 1000
MatRow(R, k, v) == RoundDiv(R[k][1] * v[0] + R[k][2] * v[1] + R[k][3] * v[2], 1000)
MatVec(R, v) == Vec3(MatRow(R, 1, v), MatRow(R, 2, v), MatRow(R, 3, v))

----------------------------------------------------------------------------
(* reltrans, pipeline.cpp 36-182.                                          *)

reltrans_disabled == "reltrans_disabled"
reltrans_enabled == "reltrans_enabled"
reltrans_non_center == "reltrans_non_center"
ReltransModes == {reltrans_disabled, reltrans_enabled, reltrans_non_center}

\* value(Pitch) < 20, fabs(value(Yaw)) > 35, > 65 (lines 83-84) and
\* eps = .01 (line 140)
LookingDownPitch == 2000
ZoneYawDown == 3500
ZoneYawUp == 6500
Eps == 100

\* RC_stages[] in ms and RC_time_deltas[] in ms, lines 125-126
RC_stages == <<2000, 1000, 500, 100, 50>>
RC_time_deltas == <<1000, 250, 250, 2000>>

\* reltrans::reltrans() = default: the members' initializers; a Timer
\* starts when it is constructed
reltrans_ctor ==
    [interp_pos |-> ZeroVec, in_zone |-> FALSE, cur |-> FALSE, RC_stage |-> 0,
     interp_timer |-> 0, interp_phase_timer |-> 0]

\* dt milliseconds pass: both timers read dt more (the model stops counting at TimerCap)
Elapse(r, dt) ==
    [r EXCEPT !.interp_timer = clamp(@ + dt, 0, TimerCap),
              !.interp_phase_timer = clamp(@ + dt, 0, TimerCap)]

\* reltrans::on_center, lines 38-43
on_center(r) == [r EXCEPT !.interp_pos = ZeroVec, !.in_zone = FALSE, !.cur = FALSE]

\* reltrans::rotate, lines 45-71
rotate(R, in, disable) ==
    Bind(MatVec(R, Vec3(in[TZ], -in[TX], -in[TY])), LAMBDA ret :
        Vec3(IF disable[TX] THEN in[TX] ELSE -ret[1],
             IF disable[TY] THEN in[TY] ELSE -ret[2],
             IF disable[TZ] THEN in[TZ] ELSE ret[0]))

\* reltrans::apply_neck, lines 171-182
apply_neck(R, nz, disable_tz) ==
    Bind(rotate(R, Vec3(0, 0, nz), NoDisable3), LAMBDA neck :
        Vec3(neck[TX], neck[TY], IF disable_tz THEN 0 ELSE neck[TZ] - nz))

\* mutant of zone_of: the looking-down test is pitch <= 20
zone_of_inclusive(state, value) ==
    IF state = reltrans_non_center
    THEN IF value[Pitch] <= LookingDownPitch THEN Abs(value[Yaw]) > ZoneYawDown
                                             ELSE Abs(value[Yaw]) > ZoneYawUp
    ELSE TRUE

\* lines 80-88: the zone membership of this cycle's pose
zone_of(state, value) ==
    IF state = reltrans_non_center
    THEN LET looking_down == value[Pitch] < LookingDownPitch
         IN  IF looking_down THEN Abs(value[Yaw]) > ZoneYawDown
                             ELSE Abs(value[Yaw]) > ZoneYawUp
    ELSE TRUE

\* mutant of arms: a change of membership arms even while a transition runs
arms_on_every_change(r, in_zone_) == r.in_zone # in_zone_

\* lines 90-99: arm a transition when none runs and the membership
\* changes, then store the membership
arms(r, in_zone_) == ~r.cur /\ r.in_zone # in_zone_

arm_and_store(r, in_zone_) ==
    IF arms(r, in_zone_)
    THEN [r EXCEPT !.cur = TRUE, !.interp_timer = 0, !.interp_phase_timer = 0,
                   !.RC_stage = 0, !.in_zone = in_zone_]
    ELSE [r EXCEPT !.in_zone = in_zone_]

\* line 112: whether the neck offset is added, inside if (in_zone)
neck_applies(state, neck_enable, in_zone) ==
    neck_enable /\ (state # reltrans_non_center \/ ~in_zone)

\* lines 101-119: the translation before interpolation
compensate(state, value, disable, neck_enable, neck_z, in_zone) ==
    IF in_zone
    THEN Bind(euler_to_rmat(Vec3(value[Yaw]   * (IF disable[Yaw] THEN 0 ELSE 1),
                                 value[Pitch] * (IF disable[Pitch] THEN 0 ELSE 1),
                                 value[Roll]  * (IF disable[Roll] THEN 0 ELSE 1))),
              LAMBDA R :
         Bind(rotate(R, Vec3(value[TX], value[TY], value[TZ]),
                     Vec3(disable[TX], disable[TY], disable[TZ])),
              LAMBDA rot :
                IF neck_applies(state, neck_enable, in_zone)
                THEN Bind(apply_neck(R, -neck_z, disable[TZ]), LAMBDA neck :
                          Vec3(rot[TX] + neck[TX], rot[TY] + neck[TY], rot[TZ] + neck[TZ]))
                ELSE rot))
    ELSE Vec3(value[TX], value[TY], value[TZ])

\* mutant of blend: the target's term is subtracted
blend_minus(interp_pos, target, dt, RC) ==
    Vec3(RoundDiv(interp_pos[0] * RC - target[0] * dt, dt + RC),
         RoundDiv(interp_pos[1] * RC - target[1] * dt, dt + RC),
         RoundDiv(interp_pos[2] * RC - target[2] * dt, dt + RC))

\* line 142: interp_pos * (1-alpha) + rel * alpha, alpha = dt/(dt+RC)
blend(interp_pos, target, dt, RC) ==
    Vec3(RoundDiv(interp_pos[0] * RC + target[0] * dt, dt + RC),
         RoundDiv(interp_pos[1] * RC + target[1] * dt, dt + RC),
         RoundDiv(interp_pos[2] * RC + target[2] * dt, dt + RC))

\* mutant of stage_advances: the phase timer is not consulted
stage_advances_untimed(r) == r.RC_stage + 1 < Len(RC_stages)

\* lines 130-131: whether the stage advances in this cycle
stage_advances(r) ==
    /\ r.RC_stage + 1 < Len(RC_stages)
    /\ r.interp_phase_timer > RC_time_deltas[r.RC_stage + 1]

\* the Pose apply_pipeline returns, lines 165-168
rel_pose(t, value) == MkPose(t[TX], t[TY], t[TZ], value[Yaw], value[Pitch], value[Roll])

\* lines 121-155, the if (cur) branch; r2 is the object after lines 90-99
interpolate(r2, armed, rel1, value, neck_on) ==
    Bind(stage_advances(r2), LAMBDA adv :
    Bind(IF adv THEN r2.RC_stage + 1 ELSE r2.RC_stage, LAMBDA stage :
    Bind(blend(r2.interp_pos, rel1, r2.interp_timer, RC_stages[stage + 1]), LAMBDA ip :
    Bind(L1(Vec3(rel1[0] - ip[0], rel1[1] - ip[1], rel1[2] - ip[2])), LAMBDA delta :
        [rel |-> [r2 EXCEPT !.interp_timer = 0,
                            !.RC_stage = stage,
                            !.interp_phase_timer = IF adv THEN 0 ELSE @,
                            !.interp_pos = ip,
                            !.cur = ~(delta < Eps)],
         value |-> rel_pose(ip, value),
         armed |-> armed, target |-> rel1, interp |-> TRUE, delta |-> delta,
         advanced |-> adv, neck |-> neck_on]))))

\* reltrans::apply_pipeline, lines 73-169.  Returns the object after the
\* call (rel), the returned Pose (value) and what the call did: whether it
\* armed a transition, the translation before interpolation (target),
\* whether the if (cur) branch ran (interp) and its delta, whether the
\* stage advanced, whether the neck offset was added.
apply_pipeline(r, state, value, disable, neck_enable, neck_z) ==
    IF state # reltrans_disabled
    THEN Bind(zone_of(state, value), LAMBDA in_zone_ :
         Bind(arm_and_store(r, in_zone_), LAMBDA r2 :
         Bind(compensate(state, value, disable, neck_enable, neck_z, r2.in_zone), LAMBDA rel1 :
         Bind(r2.in_zone /\ neck_applies(state, neck_enable, r2.in_zone), LAMBDA neck_on :
              IF r2.cur
              THEN interpolate(r2, arms(r, in_zone_), rel1, value, neck_on)
              ELSE [rel |-> [r2 EXCEPT !.interp_pos = rel1],
                    value |-> rel_pose(rel1, value),
                    armed |-> arms(r, in_zone_), target |-> rel1, interp |-> FALSE,
                    delta |-> 0, advanced |-> FALSE, neck |-> neck_on]))))
    ELSE [rel |-> [r EXCEPT !.cur = FALSE, !.in_zone = FALSE],
          value |-> rel_pose(value, value),
          armed |-> FALSE, target |-> Vec3(value[TX], value[TY], value[TZ]),
          interp |-> FALSE, delta |-> 0, advanced |-> FALSE, neck |-> FALSE]

\* mutant of reset_on_center: the compensator is not reset on a center
reset_on_center_never(r, centerp) == r

\* lines 402-403: if (centerp) rel.on_center();
reset_on_center(r, centerp) == IF centerp THEN on_center(r) ELSE r

\* pipeline::apply_reltrans, lines 400-421; st are the settings (s.*),
\* disabled the mask of get_selected_axis_values
apply_reltrans(r, st, value, disabled, centerp) ==
    Bind(reset_on_center(r, centerp), LAMBDA r1 :
    Bind(apply_pipeline(r1, st.mode, value, st.disable, st.neck_enable, st.neck_z), LAMBDA ret :
        [ret EXCEPT !.value = MkPose(IF disabled[0] THEN 0 ELSE ret.value[0],
                                     IF disabled[1] THEN 0 ELSE ret.value[1],
                                     IF disabled[2] THEN 0 ELSE ret.value[2],
                                     IF disabled[3] THEN 0 ELSE ret.value[3],
                                     IF disabled[4] THEN 0 ELSE ret.value[4],
                                     IF disabled[5] THEN 0 ELSE ret.value[5])]))

----------------------------------------------------------------------------
(* Pose utilities of pipeline, pipeline.cpp 203-421.                       *)

\* a slot that holds NaN or an infinity (fpclassify is FP_NAN or FP_INFINITE)
NaN == 10^9

NaNPose == MkPose(NaN, 0, 0, 0, 0, 0)
NaNPoseTZ == MkPose(10000, -5000, NaN, 4000, 1000, 0)

\* is_nan, lines 203-215
is_nan(r) == \E i \in Slots : r[i] = NaN

\* an axis configuration m(i).opts: src, invert, zero
Axis(src, invert, zero) == [src |-> src, invert |-> invert, zero |-> zero]

\* pipeline::get_selected_axis_values, lines 358-378
selected_value(np, axis) == IF axis.src < 0 \/ axis.src >= 6 THEN 0 ELSE np[axis.src]

get_selected_axis_values(np, m) ==
    [raw |-> np,
     value |-> MkPose(selected_value(np, m[0]), selected_value(np, m[1]),
                      selected_value(np, m[2]), selected_value(np, m[3]),
                      selected_value(np, m[4]), selected_value(np, m[5])),
     disabled |-> (0 :> (m[0].src = 6)) @@ (1 :> (m[1].src = 6)) @@ (2 :> (m[2].src = 6))
                  @@ (3 :> (m[3].src = 6)) @@ (4 :> (m[4].src = 6)) @@ (5 :> (m[5].src = 6))]

\* pipeline::pipeline: scaled_state as constructed (identity rotations, zero center)
scaled_state_ctor == [rotation |-> ZeroVec, rot_center |-> ZeroVec, t_center |-> ZeroVec]

\* pipeline::store_tracker_pose, lines 306-312.  A rotation matrix is kept
\* as the angles (yaw, pitch, roll) it was built from.
store_tracker_pose(ss, value) ==
    [ss EXCEPT !.rotation = Vec3(value[Yaw], value[Pitch], value[Roll])]

\* pipeline::maybe_set_center_pose, lines 286-304 (libs.pFilter->center()
\* acts on the filter plugin only)
maybe_set_center_pose(ss, bv, value, own_center_logic) ==
    IF bits_get(bv, f_center \cup f_held_center)
    THEN IF own_center_logic
         THEN [ss EXCEPT !.rot_center = ZeroVec, !.t_center = ZeroVec]
         ELSE [ss EXCEPT !.rot_center = ss.rotation,
                         !.t_center = Vec3(value[TX], value[TY], value[TZ])]
    ELSE ss

\* rmat_to_euler(rotation * inv_rot_center), in degrees: the angles of the
\* rotation relative to the center.  Exact when the center is the identity
\* or the current rotation; the difference of the angles otherwise.
relative_rotation(ss) ==
    Vec3(ss.rotation[0] - ss.rot_center[0],
         ss.rotation[1] - ss.rot_center[1],
         ss.rotation[2] - ss.rot_center[2])

\* pipeline::apply_center, lines 330-356
apply_center(ss, m, value) ==
    Bind(relative_rotation(ss), LAMBDA R :
    Bind(rotate(euler_to_rmat(R),
                Vec3(value[TX] - ss.t_center[0], value[TY] - ss.t_center[1],
                     value[TZ] - ss.t_center[2]),
                NoDisable3), LAMBDA T :
        MkPose(IF m[0].invert THEN -T[0] ELSE T[0],
               IF m[1].invert THEN -T[1] ELSE T[1],
               IF m[2].invert THEN -T[2] ELSE T[2],
               IF m[3].invert THEN -R[0] ELSE R[0],
               IF m[4].invert THEN -R[1] ELSE R[1],
               IF m[5].invert THEN -R[2] ELSE R[2])))

\* pipeline::map, lines 194-201: spline get_value is the curve collaborator;
\* a curve is a gain in percent applied to the input
map(pos, curve) == RoundDiv(pos * curve, 100)

map_rotation(value, curves) ==
    MkPose(value[0], value[1], value[2],
           map(value[3], curves[3]), map(value[4], curves[4]), map(value[5], curves[5]))

map_translation(value, curves) ==
    MkPose(map(value[0], curves[0]), map(value[1], curves[1]), map(value[2], curves[2]),
           value[3], value[4], value[5])

\* pipeline::apply_zero_pos, lines 391-398
zero_pos_slot(v, axis) ==
    IF v = NaN THEN NaN ELSE v + axis.zero * (IF axis.invert THEN -1 ELSE 1)

apply_zero_pos(value, m) ==
    MkPose(zero_pos_slot(value[0], m[0]), zero_pos_slot(value[1], m[1]),
           zero_pos_slot(value[2], m[2]), zero_pos_slot(value[3], m[3]),
           zero_pos_slot(value[4], m[4]), zero_pos_slot(value[5], m[5]))

\* pipeline::maybe_enable_center_on_tracking_started, lines 265-284:
\* tracking_started after the call
tracking_started_after(ts, np) == ts \/ \E i \in Slots : np[i] # 0

----------------------------------------------------------------------------
(* The scheduler of pipeline::run, pipeline.cpp 553-588.  Durations are in *)
(* microseconds; sleep_time_ms is an int of milliseconds.                  *)

const_sleep_ms == 4000
BacklogLimit == 3000000
MaxSleep == 10000
SleepRoundUp == 100

\* lines 559-566: the backlog is dropped when its magnitude exceeds 3 s,
\* then grows by the time the iteration took beyond the 4 ms period
backlog_after(backlog_time, elapsed_nsecs) ==
    (IF Abs(backlog_time) > BacklogLimit THEN 0 ELSE backlog_time)
        + (elapsed_nsecs - const_sleep_ms)

\* mutant of sleep_clamped: the difference is not clamped
sleep_unclamped(backlog_time) == const_sleep_ms - backlog_time

\* line 568: clamp(const_sleep_ms - backlog_time, ms{}, ms{10})
sleep_clamped(backlog_time) == clamp(const_sleep_ms - backlog_time, 0, MaxSleep)

\* lines 568-569: const int sleep_time_ms = ms{...}.count() + .1f; the
\* conversion to int drops the fraction of a millisecond
sleep_time(backlog_time) == (sleep_clamped(backlog_time) + SleepRoundUp) \div 1000

----------------------------------------------------------------------------
(* The parts of the state a specification does not use stay at these       *)
(* values.                                                                 *)

ClampIdle ==
    /\ cpc = "off" /\ cin = ZeroPose /\ cturns = 0 /\ cout = ZeroPose /\ cshift = ZeroPose

BitsIdle ==
    /\ bstart = {}
    /\ top = <<>> /\ tpc = <<>> /\ tb_ = <<>>

NoCall ==
    [called |-> FALSE, before |-> reltrans_ctor, value |-> ZeroPose, centerp |-> FALSE,
     dt |-> 0, mode |-> reltrans_disabled, out |-> ZeroPose, armed |-> FALSE,
     target |-> ZeroVec, interp |-> FALSE, delta |-> 0, advanced |-> FALSE, neck |-> FALSE]

RelIdle ==
    /\ rel = reltrans_ctor
    /\ rs = [mode |-> reltrans_disabled, neck_enable |-> FALSE, neck_z |-> 0,
             disable |-> NoDisable6, changed |-> FALSE]
    /\ rlast = NoCall
    /\ rcycles = 0
    /\ rfix = [value |-> ZeroPose, dt |-> 0]

\* the locals of logic() before the call has set them
LcInit ==
    [center_ordered |-> FALSE, own_center_logic |-> FALSE, hold_p |-> FALSE,
     hold_ordered |-> FALSE, value |-> ZeroPose, raw |-> ZeroPose,
     disabled |-> NoDisable6, tmp |-> ZeroPose, path |-> "none",
     frozen |-> FALSE, zero |-> FALSE,
     captured |-> FALSE, recentred |-> FALSE, cleared |-> FALSE]

PlainAxis == Axis(0, FALSE, 0)

NoCfg ==
    [m |-> [i \in Slots |-> PlainAxis], curves |-> [i \in Slots |-> 100],
     center_at_startup |-> FALSE, filter |-> FALSE, tracker_centers |-> FALSE,
     tracker |-> {}, dt |-> 0, elapsed |-> {const_sleep_ms}, cycles |-> 0]

\* pipeline::pipeline and the members' default initializers: the thread
\* object exists and run() has not begun
RunCtor ==
    /\ wpc = "l549" /\ interruption = FALSE /\ dpc = "alive" /\ mtx = "free"
    /\ output_pose = ZeroPose /\ raw_6dof = ZeroPose /\ newpose = ZeroPose
    /\ tracking_started = FALSE
    /\ scaled_state = scaled_state_ctor
    /\ lc = LcInit
    /\ published = <<>> /\ frames = <<>>
    /\ stored = {<<ZeroPose, ZeroPose>>}
    /\ ncycles = 0
    /\ sched = [backlog_time |-> 0, elapsed_nsecs |-> 0, sleep_time_ms |-> 0,
                dropped |-> FALSE, slept |-> FALSE]

RunIdle == RunCtor /\ cfg = NoCfg /\ rd = <<>>

(* Concurrent callers of bits::set / bits::negate.                         *)

\* values of the bitset the commands can have left behind
BitsStart == {bits_ctor, {}, f_zero \cup f_enabled_h}

InitBits ==
    /\ ClampIdle /\ RelIdle /\ RunIdle
    /\ b \in BitsStart
    /\ bstart = b
    /\ top \in [Threads -> CommandOps]
    /\ tpc = [t \in Threads |-> "idle"]
    /\ tb_ = [t \in Threads |-> {}]

\* entry of set / negate: unsigned b_ = 0
BitsCall(t) ==
    /\ tpc[t] = "idle"
    /\ tpc' = [tpc EXCEPT ![t] = "cas"]
    /\ tb_' = [tb_ EXCEPT ![t] = {}]
    /\ UNCHANGED <<b, bstart, top, clampVars, relVars, runVars>>

\* one iteration of for(;;) if (b.compare_exchange_weak(b_, desired)) break;
\* desired is computed from b_ before the call; on failure b_ receives the
\* value the atomic holds.  (A spurious failure of the weak form reloads the
\* same value into b_ and leaves the state as it is.)
BitsCas(t) ==
    /\ tpc[t] = "cas"
    /\ \/ /\ compare_exchange_ok(b, tb_[t])
          /\ b' = Desired(top[t], tb_[t])
          /\ tpc' = [tpc EXCEPT ![t] = "done"]
          /\ UNCHANGED tb_
       \/ /\ ~compare_exchange_ok(b, tb_[t])
          /\ tb_' = [tb_ EXCEPT ![t] = b]
          /\ UNCHANGED <<b, tpc>>
    /\ UNCHANGED <<bstart, top, clampVars, relVars, runVars>>

NextBits == \E t \in Threads : BitsCall(t) \/ BitsCas(t)

SpecBits == InitBits /\ [][NextBits]_vars

\* the results of running the calls of the threads in S one after another,
\* in every order, from bitset value v
RECURSIVE SerialResults(_, _)
SerialResults(S, v) ==
    IF S = {} THEN {v}
    ELSE UNION {SerialResults(S \ {t}, Desired(top[t], v)) : t \in S}

(* C2: command flags never lose an update.  When all concurrent set /      *)
(* negate calls have returned, the bitset is the result of the same calls  *)
(* in some serial order; no flag that no call names has changed.           *)
C2_FlagsLinearizable ==
    (\A t \in Threads : tpc[t] = "done") =>
        /\ b \in SerialResults(Threads, bstart)
        /\ \A f \in Flags :
              (\A t \in Threads : f \notin top[t].flag) => (f \in b <=> f \in bstart)

\* set(Zero, true) and toggleZero() ran concurrently, with a failed
\* compare-exchange in between, next to set flags they must not touch
C2_Witness ==
    /\ \A t \in Threads : tpc[t] = "done"
    /\ top[1] = SetOp(f_zero, TRUE)
    /\ top[2] = NegateOp(f_zero)
    /\ bstart = bits_ctor
    /\ tb_[1] # bstart
    /\ f_enabled_p \subseteq b

----------------------------------------------------------------------------
(* The compensator driven cycle by cycle: each cycle some time passes and  *)
(* logic() calls apply_reltrans (line 477) with this cycle's pose.  The    *)
(* mode is a live setting (s.reltrans_mode is read at every call).         *)

\* translation (0.1, -0.2, 3.0) with the pitch / yaw of the zone examples,
\* the pitch boundary and a pose looking straight ahead
RelTrans == Vec3(1000, -2000, 30000)
RelPose(pitch, yaw) == MkPose(RelTrans[TX], RelTrans[TY], RelTrans[TZ], yaw, pitch, 0)
RelPoses ==
    {RelPose(1000, 4000), RelPose(1000, 3000), RelPose(2500, -7000),
     RelPose(2500, 6000), RelPose(2000, 4000), RelPose(0, 0)}

RelDts == {4, 300, 1100}

\* states the compensator can be in when a run starts: as constructed, or
\* in the middle of a transition
RelStarts ==
    {reltrans_ctor,
     [interp_pos |-> Vec3(500, 7000, -20000), in_zone |-> TRUE, cur |-> TRUE, RC_stage |-> 2,
      interp_timer |-> 0, interp_phase_timer |-> 200]}

InitRel ==
    /\ ClampIdle /\ BitsIdle /\ b = bits_ctor /\ RunIdle
    /\ rel \in RelStarts
    /\ \E m \in ReltransModes, n \in BOOLEAN :
          rs = [mode |-> m, neck_enable |-> n, neck_z |-> 100000,
                disable |-> NoDisable6, changed |-> FALSE]
    /\ rlast = NoCall
    /\ rcycles = 0
    /\ \E dt \in RelDts : rfix = [value |-> ZeroPose, dt |-> dt]

\* what one call leaves in rlast
CallRecord(r0, value, centerp, dt, ret) ==
    [called |-> TRUE, before |-> r0, value |-> value, centerp |-> centerp, dt |-> dt,
     mode |-> rs.mode, out |-> ret.value, armed |-> ret.armed, target |-> ret.target,
     interp |-> ret.interp, delta |-> ret.delta, advanced |-> ret.advanced, neck |-> ret.neck]

\* one cycle: dt ms after the previous one, apply_reltrans(value, disabled, centerp)
CycleWith(value, centerp, dt) ==
    \E r0 \in {Elapse(rel, dt)} :
      \E ret \in {apply_reltrans(r0, rs, value, NoDisable6, centerp)} :
        /\ rel' = ret.rel
        /\ rlast' = CallRecord(r0, value, centerp, dt, ret)
        /\ rcycles' = clamp(rcycles + 1, 0, MaxRelCycles)

RelCycle ==
    /\ rcycles < MaxRelCycles
    /\ \E value \in RelPoses, centerp \in BOOLEAN : CycleWith(value, centerp, rfix.dt)
    /\ UNCHANGED <<rs, rfix, clampVars, bitsVars, runVars>>

\* the user changes the reltrans mode between two cycles
RelSetMode ==
    /\ ~rs.changed
    /\ \E m \in ReltransModes \ {rs.mode} : rs' = [rs EXCEPT !.mode = m, !.changed = TRUE]
    /\ UNCHANGED <<rel, rlast, rcycles, rfix, clampVars, bitsVars, runVars>>

NextRel == RelCycle \/ RelSetMode

SpecRel == InitRel /\ [][NextRel]_vars

(* C8: zone predicate.  After a call in ZoneTriggered mode the zone flag   *)
(* is |yaw| > 35 when pitch < 20 and |yaw| > 65 when pitch >= 20; after a  *)
(* call in AlwaysOn mode it is true.                                       *)
C8_ZonePredicate ==
    rlast.called =>
        /\ rlast.mode = "reltrans_non_center" =>
              (rel.in_zone <=> IF rlast.value[Pitch] < 2000
                               THEN Abs(rlast.value[Yaw]) > 3500
                               ELSE Abs(rlast.value[Yaw]) > 6500)
        /\ rlast.mode = "reltrans_enabled" => rel.in_zone

\* ZoneTriggered, pitch 10, yaw 40: the zone is active after the call
C8_Witness ==
    /\ rlast.called
    /\ rlast.mode = "reltrans_non_center"
    /\ rlast.value[Pitch] = 1000 /\ rlast.value[Yaw] = 4000
    /\ rel.in_zone

(* C10 as claimed: after the cycle that serves a center command the zone   *)
(* flag is false, the transition flag is false and the interpolated        *)
(* position is (0,0,0), in every mode and for every pose.                  *)
C10_CenterNeutral ==
    (rlast.called /\ rlast.centerp) =>
        /\ ~rel.in_zone
        /\ ~rel.cur
        /\ rel.interp_pos = ZeroVec

(* C10 amended: on_center resets the compensator before the same cycle's   *)
(* apply_pipeline runs, so after the cycle the three fields depend on this *)
(* cycle's mode and pose alone.  Disabled: false, false, (0,0,0).  Pose    *)
(* outside the zone: false, false, the pose's translation.  Pose inside    *)
(* the zone (always, in AlwaysOn mode): zone flag true, a transition armed *)
(* in this cycle from (0,0,0), so the interpolated position still reads    *)
(* (0,0,0) and the transition flag is set unless the compensated           *)
(* translation is within 0.01 of (0,0,0).                                  *)
C10_CenterNoCarry ==
    (rlast.called /\ rlast.centerp) =>
        LET inz == \/ rlast.mode = "reltrans_enabled"
                   \/ /\ rlast.mode = "reltrans_non_center"
                      /\ IF rlast.value[Pitch] < 2000
                         THEN Abs(rlast.value[Yaw]) > 3500
                         ELSE Abs(rlast.value[Yaw]) > 6500
        IN  /\ rlast.mode = "reltrans_disabled" =>
                  ~rel.in_zone /\ ~rel.cur /\ rel.interp_pos = ZeroVec
            /\ (rlast.mode # "reltrans_disabled" /\ ~inz) =>
                  /\ ~rel.in_zone /\ ~rel.cur
                  /\ rel.interp_pos = Vec3(rlast.value[TX], rlast.value[TY], rlast.value[TZ])
            /\ (rlast.mode # "reltrans_disabled" /\ inz) =>
                  /\ rel.in_zone
                  /\ rel.interp_pos = ZeroVec
                  /\ rel.RC_stage = 0
                  /\ rel.cur <=> (L1(rlast.target) >= 100)

\* a center was served while a transition was running with a non-zero
\* interpolated position, and the pose is inside the zone
C10_Witness ==
    /\ rlast.called /\ rlast.centerp
    /\ rlast.before.cur /\ rlast.before.interp_pos # ZeroVec
    /\ rlast.mode = "reltrans_non_center"
    /\ rel.in_zone /\ rel.cur

----------------------------------------------------------------------------
(* The compensator under constant input: every cycle gets the same pose    *)
(* and comes the same dt after the previous one; the worker loop keeps     *)
(* running cycles (run(), line 551), hence the fairness.                   *)

ConvPoses ==
    {RelPose(2500, 7000), RelPose(1000, 3000),
     MkPose(300000, -50000, 100000, 7000, 2500, 0)}

ConvDts == {50, 300, 2100}

\* every pose with every dt, and the nominal 4 ms period of run() with one
ConvInputs ==
    {[value |-> v, dt |-> dt] : v \in ConvPoses, dt \in ConvDts}
    \cup {[value |-> RelPose(2500, 7000), dt |-> 4]}

\* as constructed, or settled inside the zone after an earlier transition
ConvStarts ==
    {reltrans_ctor,
     [interp_pos |-> Vec3(-27858, -6560, 9306), in_zone |-> TRUE, cur |-> FALSE, RC_stage |-> 1,
      interp_timer |-> 0, interp_phase_timer |-> 100]}

InitConv ==
    /\ ClampIdle /\ BitsIdle /\ b = bits_ctor /\ RunIdle
    /\ rel \in ConvStarts
    /\ \E m \in {reltrans_enabled, reltrans_non_center}, n \in BOOLEAN :
          rs = [mode |-> m, neck_enable |-> n, neck_z |-> 100000,
                disable |-> NoDisable6, changed |-> FALSE]
    /\ rlast = NoCall
    /\ rcycles = 0
    /\ rfix \in ConvInputs

ConvCycle ==
    /\ CycleWith(rfix.value, FALSE, rfix.dt)
    /\ UNCHANGED <<rs, rfix, clampVars, bitsVars, runVars>>

NextConv == ConvCycle

SpecConv == InitConv /\ [][NextConv]_vars /\ WF_vars(ConvCycle)

(* C9: compensator convergence.  With the target constant and a fixed dt,  *)
(* once a transition is armed the L1 distance between the target and the   *)
(* interpolated position (delta) never increases from one cycle to the     *)
(* next, it eventually falls below 0.01, the transition flag is cleared in *)
(* the cycle in which it does, and the flag stays cleared while the zone   *)
(* membership does not change.                                             *)
C9_Convergence ==
    /\ [][(rlast.called /\ rlast.interp /\ rel.cur) => rlast'.delta <= rlast.delta]_vars
    /\ [](rel.cur => <>(rlast.interp /\ rlast.delta < 100 /\ ~rel.cur))
    /\ [](rlast.interp => (rel.cur <=> rlast.delta >= 100))
    /\ [][(rlast.called /\ ~rel.cur /\ rel'.in_zone = rel.in_zone) => ~rel'.cur]_vars

\* a transition that went through the stages of the schedule has settled:
\* the last cycle interpolated, found delta below 0.01 and cleared the flag
C9_Witness ==
    /\ rlast.called /\ rlast.interp
    /\ rlast.before.cur
    /\ rel.RC_stage = 4
    /\ rlast.delta < 100 /\ rlast.delta > 0
    /\ ~rel.cur

----------------------------------------------------------------------------
(* Harness for clamp_value: the inputs are finite poses (logic() calls     *)
(* clamp_value only after nan_check passed, line 446).                     *)

ClampRotIn == {0, 17000, 18000, 18001, 18002, 19000, -17000, -18500}
ClampTransIn == {0, 1234, -50000}

ShiftRot(p, k) ==
    MkPose(p[0], p[1], p[2], p[3] + FullTurn * k, p[4] + FullTurn * k, p[5] + FullTurn * k)

InitClamp ==
    /\ BitsIdle /\ b = bits_ctor /\ RelIdle /\ RunIdle
    /\ cpc = "in"
    /\ \E t \in ClampTransIn, y \in ClampRotIn, p \in ClampRotIn, r \in ClampRotIn :
          cin = MkPose(t, -t, t, y, p, r)
    /\ cturns \in (-MaxTurns) .. MaxTurns
    /\ cout = ZeroPose
    /\ cshift = ZeroPose

ClampCall ==
    /\ cpc = "in"
    /\ cpc' = "done"
    /\ cout' = clamp_value(cin)
    /\ cshift' = clamp_value(ShiftRot(cin, cturns))
    /\ UNCHANGED <<cin, cturns, bitsVars, relVars, runVars>>

NextClamp == ClampCall

SpecClamp == InitClamp /\ [][NextClamp]_vars

----------------------------------------------------------------------------
(* C5: rotation fold.  Every rotation slot whose value reduced modulo 360  *)
(* has magnitude above 180 by more than the 0.01 tolerance comes back      *)
(* folded: the reduced value minus 360 times its sign (190 -> -170,        *)
(* -185 -> 175).                                                           *)
C5_RotationFold ==
    cpc = "done" =>
        \A i \in RotSlots :
            LET r == Fmod(cin[i], 36000)
            IN  Abs(r) > 18000 + 1 => cout[i] = r - 36000 * (IF r < 0 THEN -1 ELSE 1)

(* C6: rotation clamp periodicity.  clamp_value of x and of x + 360*k      *)
(* give the same rotation slots, for every x and every integer k.          *)
C6_ClampPeriodic ==
    cpc = "done" => \A i \in RotSlots : cout[i] = cshift[i]

(* C7: rotation range invariant.  Each rotation slot of clamp_value's      *)
(* result lies in [-180, 180] and the translation slots come back          *)
(* unchanged.                                                              *)
C7_RotationRange ==
    cpc = "done" =>
        /\ \A i \in RotSlots : cout[i] >= -18000 /\ cout[i] <= 18000
        /\ \A i \in TransSlots : cout[i] = cin[i]

\* a call whose yaw input (190 degrees) is out of range and whose
\* translation is not zero has returned
C7_Witness ==
    /\ cpc = "done"
    /\ cin[Yaw] = 19000
    /\ cin[TX] # 0
    /\ cout[Yaw] = 18000

----------------------------------------------------------------------------
(* The worker thread: pipeline::run and pipeline::logic, one action per    *)
(* step between two accesses to state another thread can see.  wpc names   *)
(* the source line the worker is about to execute.                         *)

otherVars == <<clampVars, bstart, top, tpc, tb_, rs, rlast, rcycles, rfix>>

\* QMutexLocker's constructor returns once nobody holds the mutex
mutex_free(holder) == holder = "free"

\* libs.pFilter->filter(value, tmp): the filter plugin lags behind its
\* input, or hands back a pose that is not finite
Damped(v) ==
    MkPose(RoundDiv(v[0], 2), RoundDiv(v[1], 2), RoundDiv(v[2], 2),
           RoundDiv(v[3], 2), RoundDiv(v[4], 2), RoundDiv(v[5], 2))

\* pipeline::maybe_apply_filter, lines 380-389
maybe_apply_filter(value, pFilter) == IF pFilter THEN {Damped(value), NaNPose} ELSE {value}

\* mutant of goes_ok: a hold does not freeze the cycle
goes_ok_always(hold_ordered) == TRUE

\* line 486: if (!hold_ordered) goto ok;
goes_ok(hold_ordered) == ~hold_ordered

\* mutant of frozen_pair: the error path keeps the cycle's own value and raw
frozen_pair_kept(out, raw, l) == [value |-> l.value, raw |-> l.raw]

\* lines 493-494: value = output_pose; raw = raw_6dof
frozen_pair(out, raw, l) == [value |-> out, raw |-> raw]

\* mutant of zero_command: the zero flag is ignored
zero_command_ignored(value, zero) == value

\* lines 505-507: if (b.get(f_zero)) every slot of value is 0
zero_command(value, zero) == IF zero THEN ZeroPose ELSE value

\* mutant of publish: the pose is not handed to the protocol
publish_never(history, value) == history

\* libs.pProtocol->pose(value), lines 512 and 593
publish(history, value) == Append(history, value)

\* the end of a cycle, kept for the last three cycles
Remember(fs, f) == IF Len(fs) < 3 THEN Append(fs, f) ELSE Append(Tail(fs), f)

\* run(), lines 526-549: the log header, then t.start()
W_begin ==
    /\ wpc = "l549"
    /\ wpc' = "l551"
    /\ UNCHANGED <<interruption, dpc, mtx, output_pose, raw_6dof, newpose, tracking_started,
                   scaled_state, cfg, lc, published, frames, stored, ncycles, rd, b, rel,
                   sched, otherVars>>

\* line 551: while (!isInterruptionRequested())
W_top ==
    /\ wpc = "l551"
    /\ IF interruption
       THEN wpc' = "l592" /\ UNCHANGED <<ncycles, lc, published>>
       ELSE /\ ncycles < cfg.cycles
            /\ wpc' = "l432" /\ ncycles' = ncycles + 1
            /\ lc' = LcInit
            /\ published' = <<>>
    /\ UNCHANGED <<interruption, dpc, mtx, output_pose, raw_6dof, newpose, tracking_started,
                   scaled_state, cfg, frames, stored, rd, b, rel, sched, otherVars>>

\* lines 432-433: center_ordered, own_center_logic
W_center_ordered ==
    /\ wpc = "l432"
    /\ \E co \in {bits_get(b, f_center \cup f_held_center) /\ tracking_started} :
          lc' = [lc EXCEPT !.center_ordered = co,
                           !.own_center_logic = co /\ cfg.tracker_centers]
    /\ wpc' = "l434"
    /\ UNCHANGED <<interruption, dpc, mtx, output_pose, raw_6dof, newpose, tracking_started,
                   scaled_state, cfg, published, frames, stored, ncycles, rd, b, rel,
                   sched, otherVars>>

\* line 434, the first load: b.get(f_enabled_p)
W_hold_p ==
    /\ wpc = "l434"
    /\ lc' = [lc EXCEPT !.hold_p = bits_get(b, f_enabled_p)]
    /\ wpc' = "l434b"
    /\ UNCHANGED <<interruption, dpc, mtx, output_pose, raw_6dof, newpose, tracking_started,
                   scaled_state, cfg, published, frames, stored, ncycles, rd, b, rel,
                   sched, otherVars>>

\* line 434, the second load: hold_ordered = ... ^ b.get(f_enabled_h)
W_hold_ordered ==
    /\ wpc = "l434b"
    /\ lc' = [lc EXCEPT !.hold_ordered = (lc.hold_p # bits_get(b, f_enabled_h))]
    /\ wpc' = "l436"
    /\ UNCHANGED <<interruption, dpc, mtx, output_pose, raw_6dof, newpose, tracking_started,
                   scaled_state, cfg, published, frames, stored, ncycles, rd, b, rel,
                   sched, otherVars>>

\* lines 436-451: the tracker's pose, the axis selection, the first
\* nan_check, clamp_value, maybe_enable_center_on_tracking_started
W_tracker_data ==
    /\ wpc = "l436"
    /\ \E tmp \in cfg.tracker :
       \E sel \in {get_selected_axis_values(tmp, cfg.m)} :
          /\ newpose' = tmp
          /\ IF is_nan(tmp) \/ is_nan(sel.raw) \/ is_nan(sel.value)
             THEN /\ lc' = [lc EXCEPT !.raw = sel.raw, !.value = sel.value,
                                      !.disabled = sel.disabled, !.path = "tracker"]
                  /\ wpc' = "l489"
                  /\ UNCHANGED <<tracking_started, b>>
             ELSE \E ts \in {tracking_started_after(tracking_started, tmp)} :
                  /\ lc' = [lc EXCEPT !.raw = sel.raw, !.value = clamp_value(sel.value),
                                      !.disabled = sel.disabled]
                  /\ tracking_started' = ts
                  /\ b' = IF ~tracking_started /\ ts /\ cfg.center_at_startup
                          THEN bits_set_desired(b, f_center, TRUE)
                          ELSE b
                  /\ wpc' = "l452"
    /\ UNCHANGED <<interruption, dpc, mtx, output_pose, raw_6dof, scaled_state, cfg,
                   published, frames, stored, ncycles, rd, rel, sched, otherVars>>

\* lines 452-486: store_tracker_pose, maybe_set_center_pose, apply_center,
\* the filter, the rotation curves, apply_reltrans, the translation curves,
\* then the hold test
W_transform ==
    /\ wpc = "l452"
    /\ \E ss \in {maybe_set_center_pose(store_tracker_pose(scaled_state, lc.value),
                                        b, lc.value, lc.own_center_logic)} :
       \E v2 \in {apply_center(ss, cfg.m, lc.value)} :
       \E tmp \in maybe_apply_filter(v2, cfg.filter) :
          /\ scaled_state' = ss
          /\ IF is_nan(tmp)
             THEN /\ lc' = [lc EXCEPT !.value = v2, !.tmp = tmp, !.path = "filter",
                                      !.captured = bits_get(b, f_center \cup f_held_center)]
                  /\ wpc' = "l489"
                  /\ UNCHANGED rel
             ELSE \E v3 \in {map_rotation(IF lc.center_ordered THEN v2 ELSE tmp, cfg.curves)} :
                  \E ret \in {apply_reltrans(rel, rs, v3, lc.disabled, lc.center_ordered)} :
                  \E v4 \in {map_translation(ret.value, cfg.curves)} :
                     /\ rel' = ret.rel
                     /\ lc' = [lc EXCEPT !.value = v4, !.tmp = tmp,
                                         !.captured = bits_get(b, f_center \cup f_held_center),
                                         !.recentred = lc.center_ordered,
                                         !.path = IF is_nan(v4) THEN "curve"
                                                  ELSE IF goes_ok(lc.hold_ordered) THEN "ok"
                                                  ELSE "hold"]
                     /\ wpc' = IF ~is_nan(v4) /\ goes_ok(lc.hold_ordered)
                               THEN "l503" ELSE "l489"
    /\ UNCHANGED <<interruption, dpc, mtx, output_pose, raw_6dof, newpose, tracking_started,
                   cfg, published, frames, stored, ncycles, rd, b, sched, otherVars>>

\* error:, lines 489-499: under the lock, value = output_pose and
\* raw = raw_6dof; the lock is released at the end of the block
W_error ==
    /\ wpc = "l489"
    /\ mutex_free(mtx)
    /\ \E p \in {frozen_pair(output_pose, raw_6dof, lc)} :
          lc' = [lc EXCEPT !.value = p.value, !.raw = p.raw, !.frozen = TRUE]
    /\ wpc' = "l503"
    /\ UNCHANGED <<interruption, dpc, mtx, output_pose, raw_6dof, newpose, tracking_started,
                   scaled_state, cfg, published, frames, stored, ncycles, rd, b, rel,
                   sched, otherVars>>

\* ok:, line 503: b.set(f_center, false)
W_clear_center ==
    /\ wpc = "l503"
    /\ b' = bits_set_desired(b, f_center, FALSE)
    /\ lc' = [lc EXCEPT !.cleared = bits_get(b, f_center)]
    /\ wpc' = "l505"
    /\ UNCHANGED <<interruption, dpc, mtx, output_pose, raw_6dof, newpose, tracking_started,
                   scaled_state, cfg, published, frames, stored, ncycles, rd, rel,
                   sched, otherVars>>

\* lines 505-512: the zero command, apply_zero_pos, libs.pProtocol->pose
W_publish ==
    /\ wpc = "l505"
    /\ \E zero \in {bits_get(b, f_zero)} :
       \E value \in {apply_zero_pos(zero_command(lc.value, zero), cfg.m)} :
          /\ lc' = [lc EXCEPT !.value = value, !.zero = zero]
          /\ published' = publish(published, value)
    /\ wpc' = "l514"
    /\ UNCHANGED <<interruption, dpc, mtx, output_pose, raw_6dof, newpose, tracking_started,
                   scaled_state, cfg, frames, stored, ncycles, rd, b, rel, sched, otherVars>>

\* line 514: QMutexLocker foo(&mtx)
W_lock ==
    /\ wpc = "l514"
    /\ mutex_free(mtx)
    /\ mtx' = "worker"
    /\ wpc' = "l515"
    /\ UNCHANGED <<interruption, dpc, output_pose, raw_6dof, newpose, tracking_started,
                   scaled_state, cfg, lc, published, frames, stored, ncycles, rd, b, rel,
                   sched, otherVars>>

\* line 515: output_pose = value
W_store_output ==
    /\ wpc = "l515"
    /\ output_pose' = lc.value
    /\ wpc' = "l516"
    /\ UNCHANGED <<interruption, dpc, mtx, raw_6dof, newpose, tracking_started,
                   scaled_state, cfg, lc, published, frames, stored, ncycles, rd, b, rel,
                   sched, otherVars>>

\* line 516: raw_6dof = raw
W_store_raw ==
    /\ wpc = "l516"
    /\ raw_6dof' = lc.raw
    /\ stored' = stored \cup {<<output_pose, lc.raw>>}
    /\ frames' = Remember(frames, [path |-> lc.path, out |-> output_pose])
    /\ wpc' = "l522"
    /\ UNCHANGED <<interruption, dpc, mtx, output_pose, newpose, tracking_started,
                   scaled_state, cfg, lc, published, ncycles, rd, b, rel, sched, otherVars>>

\* line 522: logic() returns and foo releases the mutex
W_unlock ==
    /\ wpc = "l522"
    /\ mtx' = "free"
    /\ wpc' = "l555"
    /\ UNCHANGED <<interruption, dpc, output_pose, raw_6dof, newpose, tracking_started,
                   scaled_state, cfg, lc, published, frames, stored, ncycles, rd, b, rel,
                   sched, otherVars>>

\* lines 553-588: the time the iteration took, the backlog, the sleep; the
\* compensator's timers read cfg.dt more when the next iteration begins
W_sleep ==
    /\ wpc = "l555"
    /\ \E elapsed \in cfg.elapsed :
       \E backlog \in {backlog_after(sched.backlog_time, elapsed)} :
          sched' = [backlog_time |-> backlog, elapsed_nsecs |-> elapsed,
                    sleep_time_ms |-> sleep_time(backlog),
                    dropped |-> Abs(sched.backlog_time) > BacklogLimit, slept |-> TRUE]
    /\ rel' = Elapse(rel, cfg.dt)
    /\ wpc' = "l551"
    /\ UNCHANGED <<interruption, dpc, mtx, output_pose, raw_6dof, newpose, tracking_started,
                   scaled_state, cfg, lc, published, frames, stored, ncycles, rd, b,
                   otherVars>>

\* lines 591-599: after the loop, Pose p; libs.pProtocol->pose(p); run() returns
W_exit ==
    /\ wpc = "l592"
    /\ published' = publish(published, ZeroPose)
    /\ wpc' = "finished"
    /\ UNCHANGED <<interruption, dpc, mtx, output_pose, raw_6dof, newpose, tracking_started,
                   scaled_state, cfg, lc, frames, stored, ncycles, rd, b, rel, sched, otherVars>>

Worker ==
    \/ W_begin \/ W_top \/ W_center_ordered \/ W_hold_p \/ W_hold_ordered
    \/ W_tracker_data \/ W_transform \/ W_error \/ W_clear_center \/ W_publish
    \/ W_lock \/ W_store_output \/ W_store_raw \/ W_unlock \/ W_sleep \/ W_exit

----------------------------------------------------------------------------
(* The other threads: callers of raw_and_mapped_pose and the thread that   *)
(* destroys the pipeline.                                                  *)

Readers == 1 .. NReaders

\* a caller outside raw_and_mapped_pose, its two arrays not yet filled
ReaderIdle == [pc |-> "idle", i |-> 0, mapped |-> ZeroPose, raw |-> ZeroPose]

\* mutant of reader_may_lock: raw_and_mapped_pose does not wait for the mutex
reader_never_waits(holder) == TRUE

\* line 609: QMutexLocker foo(&mtx) returns once nobody holds the mutex
reader_may_lock(holder) == mutex_free(holder)

\* raw_and_mapped_pose is called with fresh arrays; line 609 takes the lock
R_call(r) ==
    /\ r \in DOMAIN rd
    /\ rd[r].pc \in {"idle", "done"}
    /\ reader_may_lock(mtx)
    /\ mtx' = "reader"
    /\ rd' = [rd EXCEPT ![r] = [ReaderIdle EXCEPT !.pc = "copy"]]
    /\ UNCHANGED <<wpc, interruption, dpc, output_pose, raw_6dof, newpose, tracking_started,
                   scaled_state, cfg, lc, published, frames, stored, ncycles, b, rel,
                   sched, otherVars>>

\* lines 611-615, one iteration: raw[i] = raw_6dof(i); mapped[i] = output_pose(i)
R_copy(r) ==
    /\ r \in DOMAIN rd
    /\ rd[r].pc = "copy"
    /\ rd[r].i < 6
    /\ rd' = [rd EXCEPT ![r].raw = (rd[r].i :> raw_6dof[rd[r].i]) @@ @,
                        ![r].mapped = (rd[r].i :> output_pose[rd[r].i]) @@ @,
                        ![r].i = @ + 1]
    /\ UNCHANGED <<wpc, interruption, dpc, mtx, output_pose, raw_6dof, newpose,
                   tracking_started, scaled_state, cfg, lc, published, frames, stored,
                   ncycles, b, rel, sched, otherVars>>

\* line 616: the loop is over, foo releases the mutex, the call returns
R_return(r) ==
    /\ r \in DOMAIN rd
    /\ rd[r].pc = "copy"
    /\ rd[r].i = 6
    /\ mtx' = "free"
    /\ rd' = [rd EXCEPT ![r].pc = "done"]
    /\ UNCHANGED <<wpc, interruption, dpc, output_pose, raw_6dof, newpose, tracking_started,
                   scaled_state, cfg, lc, published, frames, stored, ncycles, b, rel,
                   sched, otherVars>>

Reader == \E r \in Readers : R_call(r) \/ R_copy(r) \/ R_return(r)

\* mutant of thread_finished: wait() returns while run() is still going
thread_finished_always(pc) == TRUE

\* QThread::wait returns once run() has returned
thread_finished(pc) == pc = "finished"

\* ~pipeline, line 190: requestInterruption()
D_request ==
    /\ dpc = "alive"
    /\ interruption' = TRUE
    /\ dpc' = "requested"
    /\ UNCHANGED <<wpc, mtx, output_pose, raw_6dof, newpose, tracking_started, scaled_state,
                   cfg, lc, published, frames, stored, ncycles, rd, b, rel, sched, otherVars>>

\* ~pipeline, line 191: wait(), then the destructor returns
D_wait ==
    /\ dpc = "requested"
    /\ thread_finished(wpc)
    /\ dpc' = "returned"
    /\ UNCHANGED <<wpc, interruption, mtx, output_pose, raw_6dof, newpose, tracking_started,
                   scaled_state, cfg, lc, published, frames, stored, ncycles, rd, b, rel,
                   sched, otherVars>>

Destructor == D_request \/ D_wait

----------------------------------------------------------------------------
(* The pipeline from construction to destruction: cycles of logic() over   *)
(* the poses a tracker can report, for several axis configurations.        *)

TrackerA == MkPose(10000, -5000, 20000, 4000, 1000, 0)
TrackerB == MkPose(-20000, 0, 30000, -7000, 2500, 500)

\* what a tracker reports: nothing yet, two poses, a pose that is not finite
TrackerPoses == {ZeroPose, TrackerA, TrackerB, NaNPose}

Settings(mode, neck) ==
    [mode |-> mode, neck_enable |-> neck, neck_z |-> 100000,
     disable |-> NoDisable6, changed |-> FALSE]

\* identity axes, unit curves, no filter
PlainCfg ==
    [NoCfg EXCEPT !.tracker = TrackerPoses, !.dt = 4]

\* zero offsets on TX and Yaw, Yaw inverted, half-gain curves, a filter
OffsetCfg ==
    [NoCfg EXCEPT !.m = (0 :> Axis(0, FALSE, 5000)) @@ (1 :> Axis(1, FALSE, 0))
                        @@ (2 :> Axis(2, FALSE, 0)) @@ (3 :> Axis(3, TRUE, 1000))
                        @@ (4 :> Axis(4, FALSE, 0)) @@ (5 :> Axis(5, FALSE, 0)),
                  !.curves = [i \in Slots |-> 50],
                  !.filter = TRUE, !.center_at_startup = TRUE,
                  !.tracker = TrackerPoses, !.dt = 300]

\* Roll disabled, TZ without a source, TY inverted with a zero offset, the
\* tracker centers on its own
MaskedCfg ==
    [NoCfg EXCEPT !.m = (0 :> Axis(0, FALSE, 0)) @@ (1 :> Axis(1, TRUE, -2500))
                        @@ (2 :> Axis(7, FALSE, 0)) @@ (3 :> Axis(3, FALSE, 0))
                        @@ (4 :> Axis(4, FALSE, -500)) @@ (5 :> Axis(6, FALSE, 0)),
                  !.tracker_centers = TRUE,
                  !.tracker = {ZeroPose, TrackerA, TrackerB, NaNPoseTZ}, !.dt = 4]

RunScenarios ==
    {[cfg |-> PlainCfg, rs |-> Settings(reltrans_disabled, FALSE)],
     [cfg |-> OffsetCfg, rs |-> Settings(reltrans_enabled, FALSE)],
     [cfg |-> MaskedCfg, rs |-> Settings(reltrans_non_center, TRUE)]}

\* the flags when run() begins: as constructed, or after set_zero(true),
\* set_enabled(false), set_center() or the first two on the new object
RunFlagStarts ==
    {bits_ctor,
     bits_set_desired(bits_ctor, f_zero, TRUE),
     bits_set_desired(bits_ctor, f_enabled_h, FALSE),
     bits_set_desired(bits_ctor, f_center, TRUE),
     bits_set_desired(bits_set_desired(bits_ctor, f_zero, TRUE), f_enabled_h, FALSE)}

RunStart(sc, cycles) ==
    /\ ClampIdle /\ BitsIdle /\ RunCtor
    /\ rel = reltrans_ctor /\ rlast = NoCall /\ rcycles = 0
    /\ rfix = [value |-> ZeroPose, dt |-> 0]
    /\ cfg = [sc.cfg EXCEPT !.cycles = cycles]
    /\ rs = sc.rs

InitRun ==
    /\ \E sc \in RunScenarios : RunStart(sc, MaxCycles)
    /\ b \in RunFlagStarts
    /\ rd = <<>>

NextRun == Worker \/ Destructor

SpecRun == InitRun /\ [][NextRun]_vars

(* C1: freeze idempotence.  When the two cycles after a good frame N both  *)
(* find a pose from the tracker that is not finite, the corrected pose     *)
(* stored after N+1 and after N+2 is the corrected pose stored after N.    *)
C1_FreezeIdempotent ==
    (/\ Len(frames) = 3
     /\ frames[1].path = "ok"
     /\ frames[2].path = "tracker"
     /\ frames[3].path = "tracker")
    => (frames[2].out = frames[1].out /\ frames[3].out = frames[1].out)

----------------------------------------------------------------------------
(* The worker, the readers of Shared Output State and the destructor       *)
(* together.                                                               *)

InitShared ==
    /\ RunStart([cfg |-> OffsetCfg, rs |-> Settings(reltrans_enabled, FALSE)], SnapCycles)
    /\ b = bits_ctor
    /\ rd = [r \in Readers |-> ReaderIdle]

NextShared == Worker \/ Destructor \/ Reader

SpecShared == InitShared /\ [][NextShared]_vars

(* C3: snapshot atomicity.  The (mapped, raw) pair a call of               *)
(* raw_and_mapped_pose returns is the (output_pose, raw_6dof) pair one     *)
(* cycle stored, or the pair the pipeline was constructed with.            *)
C3_SnapshotAtomic ==
    \A r \in DOMAIN rd : rd[r].pc = "done" => <<rd[r].mapped, rd[r].raw>> \in stored

\* a reader has returned the pair of the second cycle, which differs from
\* the first cycle's pair in both poses
C3_Witness ==
    /\ Len(frames) = 2
    /\ \E r \in DOMAIN rd :
          /\ rd[r].pc = "done"
          /\ rd[r].mapped = output_pose /\ rd[r].raw = raw_6dof
          /\ rd[r].mapped # frames[1].out
          /\ \E p \in stored : p[1] = frames[1].out /\ p[2] # rd[r].raw

----------------------------------------------------------------------------
(* Teardown.  The worker thread and a reader inside its critical section   *)
(* keep running; the worker, waiting for the mutex, gets it once it is     *)
(* free often enough; nobody has to call raw_and_mapped_pose or to destroy *)
(* the pipeline.                                                           *)

InitTeardown ==
    /\ RunStart([cfg |-> [OffsetCfg EXCEPT !.tracker = {TrackerA, NaNPose}],
                 rs |-> Settings(reltrans_enabled, FALSE)], TeardownCycles)
    /\ b = bits_ctor
    /\ rd = [r \in {1} |-> ReaderIdle]

NextTeardown == Worker \/ Destructor \/ Reader

SpecTeardown ==
    /\ InitTeardown /\ [][NextTeardown]_vars
    /\ SF_vars(Worker)
    /\ \A r \in Readers : WF_vars(R_copy(r) \/ R_return(r))

(* C4: teardown.  Once interruption is requested the worker leaves its     *)
(* loop and run() returns; the destructor returns only after that; once    *)
(* the destructor has returned nothing writes output_pose or raw_6dof.     *)
C4_Teardown ==
    /\ interruption ~> (wpc = "finished")
    /\ [](dpc = "returned" => wpc = "finished")
    /\ [][dpc = "returned" =>
            /\ wpc' = "finished"
            /\ output_pose' = output_pose /\ raw_6dof' = raw_6dof]_vars

\* the destructor has returned on a pipeline whose worker had stored poses
C4_Witness ==
    /\ dpc = "returned"
    /\ output_pose # ZeroPose
    /\ ncycles = TeardownCycles

----------------------------------------------------------------------------
(* The scheduler: iterations that take less than, exactly and more than    *)
(* the period, by a part of a millisecond, by many, and by seconds.        *)

SchedElapsed == {1000, 4000, 4500, 20000, 3500000}

InitSched ==
    /\ RunStart([cfg |-> [PlainCfg EXCEPT !.tracker = {TrackerA, NaNPose},
                                         !.elapsed = SchedElapsed],
                 rs |-> Settings(reltrans_disabled, FALSE)], SchedCycles)
    /\ b = bits_ctor
    /\ rd = <<>>

NextSched == Worker \/ Destructor

SpecSched == InitSched /\ [][NextSched]_vars

(* C11, as stated: the sleep handed to portable::sleep is (4 ms - backlog) *)
(* clamped to [0 ms, 10 ms].                                               *)
C11_SleepIsClamp ==
    sched.slept =>
        sched.sleep_time_ms * 1000
            = (IF 4000 - sched.backlog_time < 0 THEN 0
               ELSE IF 4000 - sched.backlog_time > 10000 THEN 10000
               ELSE 4000 - sched.backlog_time)

(* C11, amended: the sleep is a whole number of milliseconds in 0..10,     *)
(* namely (4 ms - backlog) clamped to [0 ms, 10 ms], plus 0.1 ms, with the *)
(* fraction of a millisecond dropped; it equals the clamped value when     *)
(* that is a whole number of milliseconds.                                 *)
C11_SleepBound ==
    sched.slept =>
        LET want == IF 4000 - sched.backlog_time < 0 THEN 0
                    ELSE IF 4000 - sched.backlog_time > 10000 THEN 10000
                    ELSE 4000 - sched.backlog_time
            ms == sched.sleep_time_ms
        IN  /\ ms \in 0 .. 10
            /\ ms * 1000 <= want + 100
            /\ want + 100 < (ms + 1) * 1000
            /\ want % 1000 = 0 => ms * 1000 = want

\* the iteration after the backlog went over 3 s: the backlog was dropped,
\* this iteration took 4.5 ms and the sleep is 3 ms
C11_Witness ==
    /\ sched.slept /\ sched.dropped
    /\ sched.backlog_time = 500
    /\ sched.sleep_time_ms = 3

----------------------------------------------------------------------------
(* The end of a cycle, checked under SpecRun.                              *)

\* the worker is past line 512 of the current cycle
Published == wpc \in {"l514", "l515", "l516", "l522", "l555"}

\* the worker is past line 515 of the current cycle
StoredOutput == wpc \in {"l516", "l522", "l555"}

\* the worker is past line 516 of the current cycle
StoredRaw == wpc \in {"l522", "l555"}

\* each axis's zero offset, negated on an inverted axis
ZeroOffsets ==
    [i \in Slots |-> IF cfg.m[i].invert THEN -cfg.m[i].zero ELSE cfg.m[i].zero]

(* C12: zero command.  In a cycle that read the Zero flag as set, the pose *)
(* handed to the protocol and the pose stored in output_pose are, slot by  *)
(* slot, the axis's zero offset, negated on an inverted axis.              *)
C12_ZeroCommand ==
    lc.zero =>
        /\ Published => published = <<ZeroOffsets>>
        /\ StoredOutput => output_pose = ZeroOffsets

\* a hold cycle with the Zero flag set has stored the zero offsets, which
\* differ from the tracker's pose and are not all 0
C12_Witness ==
    /\ StoredRaw /\ lc.zero /\ lc.path = "hold"
    /\ output_pose # ZeroPose
    /\ newpose = TrackerA
    /\ ncycles >= 2

\* the worker is inside logic() and has not reached line 512
NotYetPublished ==
    wpc \in {"l432", "l434", "l434b", "l436", "l452", "l489", "l503", "l505"}

\* the worker is between two calls of logic(), or has just left the loop
BetweenCycles == wpc \in {"l555", "l551", "l592"} /\ ncycles > 0

(* C13: publish, then store.  A cycle hands one pose to the protocol: none *)
(* before line 512, one after it.  The pose stored in output_pose at the   *)
(* end of the cycle is that pose, so between cycles output_pose is the     *)
(* pose published last.                                                    *)
C13_PublishThenStore ==
    /\ NotYetPublished => published = <<>>
    /\ Published => Len(published) = 1
    /\ StoredOutput => output_pose = published[1]
    /\ BetweenCycles => (Len(published) = 1 /\ output_pose = published[1])

\* after a good, a hold or fault cycle: the second cycle was frozen, and it
\* published and stored a pose other than the first cycle's
C13_Witness ==
    /\ BetweenCycles /\ wpc = "l551"
    /\ Len(frames) = 2
    /\ frames[1].path = "ok" /\ frames[2].path \in {"tracker", "filter", "hold"}
    /\ frames[2].out # frames[1].out
    /\ published = <<output_pose>>

\* the worker is past the error block of the current cycle
PastError == wpc \in {"l503", "l505", "l514", "l515", "l516", "l522", "l555"}

\* EnabledPersistent XOR EnabledHold; no command changes them under SpecRun
HoldOrdered == bits_get(b, f_enabled_p) # bits_get(b, f_enabled_h)

(* C14: freeze selection and the raw pose.  A cycle goes through the error *)
(* block exactly when the tracker's or the filter's pose is not finite or  *)
(* a hold is ordered.  A frozen cycle publishes the stored output (or 0    *)
(* under the zero command) plus the zero offsets, whatever the tracker     *)
(* reported, and leaves raw_6dof as it was; any other cycle stores the     *)
(* tracker's pose in raw_6dof.                                             *)
C14_FreezeSelection ==
    /\ [](PastError =>
            (lc.frozen <=> (is_nan(newpose) \/ is_nan(lc.tmp) \/ HoldOrdered)))
    /\ []((wpc = "l514" /\ lc.frozen) =>
            published = << [i \in Slots |->
                              (IF lc.zero THEN 0 ELSE output_pose[i]) + ZeroOffsets[i]] >>)
    /\ [][(wpc = "l516" /\ lc.frozen) => raw_6dof' = raw_6dof]_vars
    /\ []((StoredRaw /\ ~lc.frozen) => raw_6dof = newpose)

\* a cycle frozen by the filter after a good one: the tracker's pose is
\* finite and differs from the raw pose, which is the good cycle's
C14_Witness ==
    /\ StoredRaw /\ lc.frozen /\ lc.path = "filter"
    /\ Len(frames) = 2 /\ frames[1].path = "ok"
    /\ raw_6dof # newpose /\ raw_6dof # ZeroPose

(* C15: numeric-fault containment.  Whatever slots the tracker or the      *)
(* filter fill with NaN or an infinity, no pose handed to the protocol and *)
(* neither pose of Shared Output State has such a slot.                    *)
C15_FaultContained ==
    /\ ~is_nan(output_pose)
    /\ ~is_nan(raw_6dof)
    /\ \A k \in 1 .. Len(published) : ~is_nan(published[k])

\* the tracker's pose was not finite in one cycle and the filter's in
\* another, and the last of them has been published and stored
C15_Witness ==
    /\ StoredRaw
    /\ Len(frames) >= 2
    /\ \E j, k \in 1 .. Len(frames) : frames[j].path = "tracker" /\ frames[k].path = "filter"
    /\ is_nan(newpose) \/ is_nan(lc.tmp)

----------------------------------------------------------------------------
(* The compensator, checked under SpecRel.  rlast is the last call of      *)
(* apply_reltrans: its arguments, the object before it, what it returned.  *)

(* C16: Disabled mode is inert.  A call in Disabled mode returns its input *)
(* pose and leaves the zone flag false, the transition flag false and the  *)
(* interpolated position (0,0,0).                                          *)
C16_DisabledInert ==
    (rlast.called /\ rlast.mode = "reltrans_disabled") =>
        /\ rlast.out = rlast.value
        /\ ~rel.in_zone
        /\ ~rel.cur
        /\ rel.interp_pos = ZeroVec

\* the object as lines 80-99 find it: after on_center when the call centers
BeforeArming == IF rlast.centerp THEN on_center(rlast.before) ELSE rlast.before

\* the call ran in AlwaysOn or ZoneTriggered mode
EnabledCall == rlast.called /\ rlast.mode # "reltrans_disabled"

\* the membership computed by the call differs from the stored zone flag
MembershipChanged == BeforeArming.in_zone # rel.in_zone

(* C17, as stated: in every enabled cycle in which the membership changes  *)
(* a transition is armed (the RC stage is 0 and the phase timer restarted  *)
(* after the cycle); in a cycle without a change none is armed.            *)
C17_ArmOnChange ==
    EnabledCall =>
        /\ MembershipChanged =>
              (rlast.armed /\ rel.RC_stage = 0 /\ rel.interp_phase_timer = 0
               /\ rel.interp_timer = 0)
        /\ ~MembershipChanged => ~rlast.armed

(* C17, amended: a change of membership arms a transition only when none   *)
(* is running.  Then the RC stage is 0 and both timers are restarted, the  *)
(* interpolation runs in the same cycle, and the transition flag stays set *)
(* unless that first step already ends within 0.01 of the target.  When a  *)
(* transition is running, a change of membership arms nothing: the stage   *)
(* does not go back and the phase timer is restarted only by a stage       *)
(* advance.  Without a change nothing is armed.                            *)
C17_ArmWhenIdle ==
    EnabledCall =>
        /\ (MembershipChanged /\ ~BeforeArming.cur) =>
              /\ rlast.armed /\ rlast.interp
              /\ rel.RC_stage = 0 /\ rel.interp_phase_timer = 0 /\ rel.interp_timer = 0
              /\ rel.cur <=> rlast.delta >= 100
        /\ (MembershipChanged /\ BeforeArming.cur) =>
              /\ ~rlast.armed /\ rlast.interp
              /\ rel.RC_stage >= BeforeArming.RC_stage
              /\ rel.interp_phase_timer = (IF rlast.advanced THEN 0
                                           ELSE BeforeArming.interp_phase_timer)
        /\ ~MembershipChanged => ~rlast.armed

\* ZoneTriggered: the pose enters the zone while no transition runs, and
\* one is armed and still running after the cycle
C17_Witness ==
    /\ EnabledCall /\ rlast.mode = "reltrans_non_center"
    /\ ~BeforeArming.in_zone /\ ~BeforeArming.cur
    /\ rel.in_zone /\ rel.cur /\ rel.RC_stage = 0

----------------------------------------------------------------------------
(* The RC stages, checked under SpecConv: transitions that run to the end. *)

\* seconds after which stage s is left, s = 0..3, in milliseconds
StageThresholds == <<1000, 250, 250, 2000>>

(* C18: RC-stage schedule.  The RC-stage index is always in 0..4.  A cycle *)
(* that arms a transition leaves it at 0; any other cycle leaves it as it  *)
(* was or one higher, and one higher only when the phase timer read more   *)
(* than the threshold of the stage it leaves, the phase timer being        *)
(* restarted.  At stage 4 it stays until a transition is armed.            *)
C18_StageSchedule ==
    /\ [](rel.RC_stage \in 0 .. 4)
    /\ [][rlast'.called =>
            IF rlast'.armed
            THEN rel'.RC_stage = 0
            ELSE /\ rel'.RC_stage \in {rel.RC_stage, rel.RC_stage + 1}
                 /\ rel'.RC_stage = rel.RC_stage + 1 =>
                       /\ rlast'.before.interp_phase_timer > StageThresholds[rel.RC_stage + 1]
                       /\ rel'.interp_phase_timer = 0
                 /\ rel.RC_stage = 4 => rel'.RC_stage = 4]_vars

\* the cycle that left stage 3 for stage 4, the phase timer having read
\* more than 2 s
C18_Witness ==
    /\ rlast.called /\ rlast.advanced
    /\ rel.RC_stage = 4
    /\ rlast.before.RC_stage = 3
    /\ rlast.before.interp_phase_timer > 2000

----------------------------------------------------------------------------
(* The neck offset, checked under SpecRel.                                 *)

\* the rotation matrix of the last call's pose
CallRotation == euler_to_rmat(Vec3(rlast.value[Yaw], rlast.value[Pitch], rlast.value[Roll]))

\* the last call's translation, rotated
CallRotated ==
    rotate(CallRotation, Vec3(rlast.value[TX], rlast.value[TY], rlast.value[TZ]), NoDisable3)

\* the neck-pivot offset of the last call's pose
CallNeck == apply_neck(CallRotation, -rs.neck_z, FALSE)

(* C20: neck offset.  With the neck model enabled, the translation a cycle *)
(* compensates to is the rotated translation plus the neck-pivot offset    *)
(* whenever the zone is active, in AlwaysOn and in ZoneTriggered mode; it  *)
(* is the rotated translation alone when the neck model is disabled, and   *)
(* the input translation when the zone is not active.                      *)
C20_NeckApplied ==
    EnabledCall =>
        rlast.target =
            IF ~rel.in_zone THEN Vec3(rlast.value[TX], rlast.value[TY], rlast.value[TZ])
            ELSE IF rs.neck_enable
                 THEN Vec3(CallRotated[0] + CallNeck[0], CallRotated[1] + CallNeck[1],
                           CallRotated[2] + CallNeck[2])
                 ELSE CallRotated

----------------------------------------------------------------------------
(* Commands from other threads while the worker runs.  A command is one    *)
(* bits::set, which takes effect at one instant.                           *)

\* pipeline::set_center, line 618; requests made once tracking has started
set_center ==
    /\ tracking_started
    /\ ~bits_get(b, f_center)
    /\ b' = bits_set_desired(b, f_center, TRUE)
    /\ UNCHANGED <<wpc, interruption, dpc, mtx, output_pose, raw_6dof, newpose,
                   tracking_started, scaled_state, cfg, lc, published, frames, stored,
                   ncycles, rd, rel, sched, otherVars>>

\* pipeline::set_enabled, line 625
set_enabled ==
    /\ \E value \in BOOLEAN :
          /\ bits_get(b, f_enabled_h) # value
          /\ b' = bits_set_desired(b, f_enabled_h, value)
    /\ UNCHANGED <<wpc, interruption, dpc, mtx, output_pose, raw_6dof, newpose,
                   tracking_started, scaled_state, cfg, lc, published, frames, stored,
                   ncycles, rd, rel, sched, otherVars>>

Command == set_center \/ set_enabled

InitCmd ==
    /\ RunStart([cfg |-> [OffsetCfg EXCEPT !.center_at_startup = FALSE,
                                           !.tracker = {TrackerA, TrackerB, NaNPose}],
                 rs |-> Settings(reltrans_enabled, FALSE)], CmdCycles)
    /\ b = bits_ctor
    /\ rd = <<>>

NextCmd == Worker \/ Destructor \/ Command

SpecCmd == InitCmd /\ [][NextCmd]_vars

(* C19: no lost center command.  When line 503 clears a Center flag that   *)
(* was set, the cycle has captured a center pose (lines 288-302) and has   *)
(* reset the compensator (line 403).                                       *)
C19_NoLostCenter ==
    lc.cleared => (lc.captured /\ lc.recentred)

====
